---- MODULE Spec2Model ----
(***************************************************************************)
(* netgauge: per-OS interface counter collectors, the SNMP WAN collector,  *)
(* the DeltaTracker and the poll loop of netgauge-gui, as a state machine. *)
(***************************************************************************)
EXTENDS Integers, Sequences, FiniteSets, TLC

(***************************************************************************)
(* Bounds of the model                                                     *)
(***************************************************************************)
\* largest raw rx_bytes value a sample carries
MaxRx == 1

\* largest raw tx_bytes value a sample carries
MaxTx == 1

\* the host-owned lists and tables that are counted
MaxHeld == 1

\* largest sum of deltas, and of steps of a raw counter, that is followed
MaxSum == 2

(***************************************************************************)
(* Data model (src/src/net/net.rs, src/src/net/tracker.rs)                 *)
(***************************************************************************)
\* enum InterfaceType { Net, Wan }
InterfaceType == {"Net", "Wan"}

\* the name of a local interface and the display name of the WAN interface
\* ("{if_name} (WAN)", netgauge-gui main.rs:518)
TrackNames == {"eth0", "ppp0 (WAN)"}

\* struct InterfaceStats
InterfaceStats(names) ==
    [interface : names, rx_bytes : 0..MaxRx, tx_bytes : 0..MaxTx, kind : InterfaceType]

\* the absent value of an Option
None == [tag |-> "None"]

VARIABLES
    previous,   \* DeltaTracker.previous : HashMap<String, (u64, u64)>
    call,       \* the last DeltaTracker.update call: its argument, the map before it, its result
    collect,    \* the last fetch_net_stats call: OS variant, selection, host answer, result
    wan,        \* the last fetch_wan_stats call: arguments, the device's answers, outcome
    os,                     \* the collector variant compiled into the binary
    snmp_available,         \* main: let snmp_available = is_snmp_available(..)
    wan_interface,          \* main: Option<(u32, String)> from detect_interface_index
    available_interfaces,   \* NetGaugeState.available_interfaces
    selected_interfaces,    \* the InterfaceSet inside Arc<RwLock<..>>
    lock,                   \* the RwLock: its write holder and its read holders
    interfaces,             \* NetGaugeState.interfaces, the list handed to the views
    pollPc,                 \* where the polling task is
    selected,               \* polling task: the snapshot of this tick
    deltas,                 \* polling task: the deltas of the local samples
    metrics,                \* polling task: Vec<InterfaceMetric> of this tick
    uiPc,                   \* where the UI thread is
    uiIface,                \* the list item the UI thread is handling
    wan_deltas,             \* polling task: the deltas of the WAN sample
    detect,     \* the last detect_interface_index call: the device's table, the pattern, the result
    format,     \* the last formatter call: the function, its argument, the text
    tick_previous,  \* history: DeltaTracker.previous when this tick's first update began
    local_only,     \* history: a tracker fed the local batches only, and its last deltas
    wan_only,       \* history: a tracker fed the WAN samples only, and its last deltas
    probes,         \* history: how many times is_snmp_available has been called
    wan_calls,      \* history: how many times fetch_wan_stats was called in this tick
    observed,       \* history: the last local sample of each name, the names a tick's
                    \* snapshot left out since, the names this tick sampled again
    host_lists,     \* the lists and tables the host handed out that were not handed back
    series,         \* history: the observations of one interface and the sums of its deltas
    toggled         \* history: the last two toggles, each with its name and the set before it

trackerVars == <<previous, call>>

collectVars == <<collect>>

wanVars == <<wan>>

guiVars == <<os, snmp_available, wan_interface, available_interfaces, selected_interfaces,
             lock, interfaces, pollPc, selected, deltas, metrics, uiPc, uiIface, wan_deltas>>

detectVars == <<detect>>

formatVars == <<format>>

historyVars == <<tick_previous, local_only, wan_only, probes, wan_calls, observed>>

hostVars == <<host_lists>>

seriesVars == <<series>>

selectorVars == <<toggled>>

vars == <<previous, call, collect, wan, os, snmp_available, wan_interface,
          available_interfaces, selected_interfaces, lock, interfaces, pollPc,
          selected, deltas, metrics, uiPc, uiIface, wan_deltas, detect, format,
          tick_previous, local_only, wan_only, probes, wan_calls, observed,
          host_lists, series, toggled>>

(***************************************************************************)
(* DeltaTracker (src/src/net/tracker.rs)                                   *)
(***************************************************************************)
\* a reset counter reported as the distance to the old value
abs_sub(a, b) ==
    IF a >= b THEN a - b ELSE b - a

\* u64::saturating_sub
saturating_sub(a, b) ==
    IF a >= b THEN a - b ELSE 0

\* a missing entry read as the zero pair
get_or_zero(prev, s) ==
    IF s.interface \in DOMAIN prev THEN prev[s.interface] ELSE <<0, 0>>

\* self.previous.get(&s.interface).copied().unwrap_or((s.rx_bytes, s.tx_bytes))
get_or_current(prev, s) ==
    IF s.interface \in DOMAIN prev THEN prev[s.interface] ELSE <<s.rx_bytes, s.tx_bytes>>

\* an entry that is only created, never overwritten (entry().or_insert)
insert_if_absent(prev, s) ==
    IF s.interface \in DOMAIN prev
    THEN prev
    ELSE [n \in DOMAIN prev \cup {s.interface} |->
            IF n = s.interface THEN <<s.rx_bytes, s.tx_bytes>> ELSE prev[n]]

\* a map that keeps the entry of the current name only
insert_evicting(prev, s) ==
    [n \in {s.interface} |-> <<s.rx_bytes, s.tx_bytes>>]

\* an insert that zeroes the pairs of the other names
insert_resetting(prev, s) ==
    [n \in DOMAIN prev \cup {s.interface} |->
        IF n = s.interface THEN <<s.rx_bytes, s.tx_bytes>> ELSE <<0, 0>>]

\* self.previous.insert(s.interface.clone(), (s.rx_bytes, s.tx_bytes))
insert(prev, s) ==
    [n \in DOMAIN prev \cup {s.interface} |->
        IF n = s.interface THEN <<s.rx_bytes, s.tx_bytes>> ELSE prev[n]]

\* the NetDelta pushed for one sample
delta_of(prev, s) ==
    LET p == get_or_current(prev, s)
    IN  [interface |-> s.interface,
         rx_delta  |-> saturating_sub(s.rx_bytes, p[1]),
         tx_delta  |-> saturating_sub(s.tx_bytes, p[2]),
         kind      |-> s.kind]

RECURSIVE update_rev(_, _)
\* deltas collected in reverse order
update_rev(prev, stats) ==
    IF stats = << >>
    THEN [previous |-> prev, deltas |-> << >>]
    ELSE LET s    == Head(stats)
             rest == update_rev(insert(prev, s), Tail(stats))
         IN  [previous |-> rest.previous,
              deltas   |-> rest.deltas \o <<delta_of(prev, s)>>]

RECURSIVE update_kept(_, _)
\* the loop of update over a map that was cut down beforehand
update_kept(prev, stats) ==
    IF stats = << >>
    THEN [previous |-> prev, deltas |-> << >>]
    ELSE LET s    == Head(stats)
             rest == update_kept(insert(prev, s), Tail(stats))
         IN  [previous |-> rest.previous,
              deltas   |-> <<delta_of(prev, s)>> \o rest.deltas]

\* a tracker that forgets every name its batch leaves out
update_pruning(prev, stats) ==
    update_kept([n \in DOMAIN prev \cap {stats[i].interface : i \in 1..Len(stats)} |-> prev[n]],
                stats)

RECURSIVE update(_, _)
\* DeltaTracker::update: the map after the call and the returned Vec<NetDelta>
update(prev, stats) ==
    IF stats = << >>
    THEN [previous |-> prev, deltas |-> << >>]
    ELSE LET s    == Head(stats)
             rest == update(insert(prev, s), Tail(stats))
         IN  [previous |-> rest.previous,
              deltas   |-> <<delta_of(prev, s)>> \o rest.deltas]

\* the WAN sample run through a tracker of its own
update_wan_fresh(prev, sample) ==
    update(<< >>, <<sample>>)

\* tracker.update(&[wan_stats])
update_wan(prev, sample) ==
    update(prev, <<sample>>)

\* the interface whose observations are followed
SeriesName == "eth0"

\* nothing observed yet
NoSeries ==
    [seen |-> FALSE, first |-> <<0, 0>>, last |-> <<0, 0>>,
     gained |-> <<0, 0>>, up |-> <<0, 0>>, down |-> <<0, 0>>]

RECURSIVE follow(_, _, _)
\* the observations of SeriesName in one update call, sample by sample: its
\* first and last raw pair, the sum of the deltas update returned for it, and
\* the sums of the upward and of the downward steps of its raw counters
follow(se, stats, ds) ==
    IF stats = << >>
    THEN se
    ELSE LET s    == Head(stats)
             cur  == <<s.rx_bytes, s.tx_bytes>>
             got  == <<Head(ds).rx_delta, Head(ds).tx_delta>>
             next == IF s.interface # SeriesName
                     THEN se
                     ELSE IF ~se.seen
                     THEN [seen |-> TRUE, first |-> cur, last |-> cur,
                           gained |-> got, up |-> <<0, 0>>, down |-> <<0, 0>>]
                     ELSE [seen   |-> TRUE,
                           first  |-> se.first,
                           last   |-> cur,
                           gained |-> <<se.gained[1] + got[1], se.gained[2] + got[2]>>,
                           up     |-> [k \in 1..2 |->
                                        se.up[k] + (IF cur[k] > se.last[k]
                                                    THEN cur[k] - se.last[k] ELSE 0)],
                           down   |-> [k \in 1..2 |->
                                        se.down[k] + (IF cur[k] < se.last[k]
                                                      THEN se.last[k] - cur[k] ELSE 0)]]
         IN  follow(next, Tail(stats), Tail(ds))

\* the record kept of one update call
CallRecord(before, stats, r) ==
    [tag |-> "Some", before |-> before, stats |-> stats, deltas |-> r.deltas]

(***************************************************************************)
(* Platform collectors (src/src/net/net_linux.rs, net_macos.rs,            *)
(* net_windows.rs)                                                         *)
(***************************************************************************)
\* if data.len() < 16
MinFields == 16

\* data[0] and data[8]: the zero-based positions of the rx and tx byte counts
RxField == 0

TxField == 8

\* interface names the host may report
HostNames == {"eth0", "lo", "docker0"}

\* #[cfg(target_os = ...)]: the variant compiled in
OsVariants == {"linux", "macos", "windows"}

\* a line of /proc/net/dev is [iface, colon, data]: the text before the first
\* colon, whether there is a colon, and the fields after it. Fields builds the
\* n fields of a record; a token that is not an unsigned number is written -1
Fields(rx, tx, n) ==
    [k \in 1..n |-> IF k = RxField + 1 THEN rx ELSE IF k = TxField + 1 THEN tx ELSE 0]

\* str::parse::<u64>().unwrap_or(0)
parse_u64_or_0(token) ==
    IF token >= 0 THEN token ELSE 0

\* InterfaceSet::matches, taken as membership of the name in the set
matches(sel, iface) ==
    iface \in sel

\* content.lines().skip(n)
skip(lines, n) ==
    IF Len(lines) <= n THEN << >> ELSE SubSeq(lines, n + 1, Len(lines))

\* a length test that asks only for the fields that are read
parse_line_linux_short(sel, line) ==
    IF ~matches(sel, line.iface) THEN << >>
    ELSE IF ~line.colon THEN << >>
    ELSE IF Len(line.data) < TxField + 1 THEN << >>
    ELSE <<[interface |-> line.iface,
            rx_bytes  |-> parse_u64_or_0(line.data[RxField + 1]),
            tx_bytes  |-> parse_u64_or_0(line.data[TxField + 1]),
            kind      |-> "Net"]>>

\* the body of the loop over the lines: the samples one line contributes
parse_line_linux(sel, line) ==
    IF ~matches(sel, line.iface) THEN << >>
    ELSE IF ~line.colon THEN << >>
    ELSE IF Len(line.data) < MinFields THEN << >>
    ELSE <<[interface |-> line.iface,
            rx_bytes  |-> parse_u64_or_0(line.data[RxField + 1]),
            tx_bytes  |-> parse_u64_or_0(line.data[TxField + 1]),
            kind      |-> "Net"]>>

RECURSIVE parse_lines_linux(_, _)
\* for line in content.lines().skip(2): the samples pushed, in line order
parse_lines_linux(sel, lines) ==
    IF lines = << >>
    THEN << >>
    ELSE parse_line_linux(sel, Head(lines)) \o parse_lines_linux(sel, Tail(lines))

\* a failed read answered with a placeholder sample
fetch_net_stats_linux_placeholder(sel, src) ==
    IF ~src.ok
    THEN <<[interface |-> "", rx_bytes |-> 0, tx_bytes |-> 0, kind |-> "Net"]>>
    ELSE parse_lines_linux(sel, skip(src.content, 2))

\* net_linux::fetch_net_stats
fetch_net_stats_linux(sel, src) ==
    IF ~src.ok
    THEN << >>
    ELSE parse_lines_linux(sel, skip(src.content, 2))

RECURSIVE accumulate_macos_last(_, _, _)
\* an entry that replaces what acc holds for its name instead of adding to it
accumulate_macos_last(sel, list, acc) ==
    IF list = << >>
    THEN acc
    ELSE LET ifa  == Head(list)
             name == ifa.ifa_name
             next == IF ifa.ifa_data # None /\ name \in sel
                     THEN [n \in DOMAIN acc \cup {name} |->
                             IF n = name
                             THEN <<ifa.ifa_data.ifi_ibytes, ifa.ifa_data.ifi_obytes>>
                             ELSE acc[n]]
                     ELSE acc
         IN  accumulate_macos_last(sel, Tail(list), next)

RECURSIVE accumulate_macos(_, _, _)
\* the while loop over the ifaddrs list: acc after the traversal
accumulate_macos(sel, list, acc) ==
    IF list = << >>
    THEN acc
    ELSE LET ifa  == Head(list)
             name == ifa.ifa_name
             old  == IF name \in DOMAIN acc THEN acc[name] ELSE <<0, 0>>
             next == IF ifa.ifa_data # None /\ name \in sel
                     THEN [n \in DOMAIN acc \cup {name} |->
                             IF n = name
                             THEN <<old[1] + ifa.ifa_data.ifi_ibytes,
                                    old[2] + ifa.ifa_data.ifi_obytes>>
                             ELSE acc[n]]
                     ELSE acc
         IN  accumulate_macos(sel, Tail(list), next)

\* every order in which a HashMap may be iterated
Orders(S) ==
    {f \in [1..Cardinality(S) -> S] : \A i, j \in 1..Cardinality(S) : f[i] = f[j] => i = j}

\* the selection test left out of the traversal
fetch_net_stats_macos_unfiltered(sel, src) ==
    IF ~src.ok
    THEN {<< >>}
    ELSE LET acc == accumulate_macos({e.ifa_name : e \in {src.list[k] : k \in 1..Len(src.list)}},
                                     src.list, << >>)
         IN  {[i \in 1..Len(o) |->
                 [interface |-> o[i], rx_bytes |-> acc[o[i]][1],
                  tx_bytes |-> acc[o[i]][2], kind |-> "Net"]] : o \in Orders(DOMAIN acc)}

\* net_macos::fetch_net_stats: the lists acc.into_iter() may produce
fetch_net_stats_macos(sel, src) ==
    IF ~src.ok
    THEN {<< >>}
    ELSE LET acc == accumulate_macos(sel, src.list, << >>)
         IN  {[i \in 1..Len(o) |->
                 [interface |-> o[i], rx_bytes |-> acc[o[i]][1],
                  tx_bytes |-> acc[o[i]][2], kind |-> "Net"]] : o \in Orders(DOMAIN acc)}

\* String::from_utf16_lossy(&row.Alias).trim_end_matches('\0'): the text of
\* the buffer without its trailing NULs
decode_alias(alias) ==
    alias.text

RECURSIVE rows_windows_strict(_, _)
\* an empty selection taken as "select none"
rows_windows_strict(sel, table) ==
    IF table = << >>
    THEN << >>
    ELSE LET row  == Head(table)
             name == decode_alias(row.Alias)
             rest == rows_windows_strict(sel, Tail(table))
         IN  IF name \notin sel
             THEN rest
             ELSE <<[interface |-> name, rx_bytes |-> row.InOctets,
                     tx_bytes |-> row.OutOctets, kind |-> "Net"]>> \o rest

RECURSIVE rows_windows(_, _)
\* the loop over the rows of the MIB_IF_TABLE2
rows_windows(sel, table) ==
    IF table = << >>
    THEN << >>
    ELSE LET row  == Head(table)
             name == decode_alias(row.Alias)
             rest == rows_windows(sel, Tail(table))
         IN  IF sel # {} /\ name \notin sel
             THEN rest
             ELSE <<[interface |-> name, rx_bytes |-> row.InOctets,
                     tx_bytes |-> row.OutOctets, kind |-> "Net"]>> \o rest

\* net_windows::fetch_net_stats
fetch_net_stats_windows(sel, src) ==
    IF ~src.ok
    THEN << >>
    ELSE rows_windows(sel, src.table)

\* fetch_net_stats of the variant compiled in: the lists the call may return
fetch_net_stats(variant, sel, src) ==
    CASE variant = "linux"   -> {fetch_net_stats_linux(sel, src)}
      [] variant = "macos"   -> fetch_net_stats_macos(sel, src)
      [] variant = "windows" -> {fetch_net_stats_windows(sel, src)}

\* the lists a fetch_net_stats call obtains from the host: the ifaddrs list of
\* getifaddrs, the MIB_IF_TABLE2 of GetIfTable2; the text of /proc/net/dev is
\* an owned String
obtained_by_fetch(variant, src) ==
    IF variant \in {"macos", "windows"} /\ src.ok THEN 1 ELSE 0

\* the lists the call hands back before it returns: freeifaddrs(ifap) in the
\* address-list variant; the interface-table variant has no such call
released_by_fetch(variant, src) ==
    IF variant = "macos" /\ src.ok THEN 1 ELSE 0

\* list_interfaces: GetIfTable2 and no call that hands the table back
obtained_by_list_interfaces(variant, ok) ==
    IF variant = "windows" /\ ok THEN 1 ELSE 0

released_by_list_interfaces(variant, ok) ==
    0

\* the lists held after a call that obtained got and handed back freed; the
\* count is kept up to MaxHeld, which stands for MaxHeld or more
held_after(held, got, freed) ==
    IF held + got - freed > MaxHeld THEN MaxHeld ELSE held + got - freed

(***************************************************************************)
(* SNMP WAN collector (src/src/net/wan/snmp.rs)                            *)
(***************************************************************************)
\* what SyncSession::get returns: Err(_), or Ok(pdu) whose first varbind is
\* absent or a value of some wire type
GetErr == [tag |-> "Err"]

GetOkEmpty == [tag |-> "Ok", varbind |-> None]

GetOk(type, v) == [tag |-> "Ok", varbind |-> [tag |-> "Some", type |-> type, v |-> v]]

\* the outcome of a call: a returned value, or a panic at a source line
Returned(v) == [tag |-> "Returned", value |-> v]

Panicked(line) == [tag |-> "Panicked", line |-> line]

\* match sess.get(&oid).unwrap().varbinds.next() { Counter32 | Counter64 | _ };
\* the unwrap panics on Err
counter_of(get, line) ==
    IF get.tag = "Err" THEN Panicked(line)
    ELSE IF get.varbind = None THEN Returned(0)
    ELSE IF get.varbind.type \in {"Counter32", "Counter64"} THEN Returned(get.varbind.v)
    ELSE Returned(0)

\* fetch_wan_stats: new_v2c(..).expect(..), the rx GET, the tx GET, the sample
fetch_wan_stats(if_index, iface_name, resp) ==
    IF resp.session = "Err" THEN Panicked(21)
    ELSE LET rx == counter_of(resp.rx, 24)
             tx == counter_of(resp.tx, 31)
         IN  IF rx.tag = "Panicked" THEN rx
             ELSE IF tx.tag = "Panicked" THEN tx
             ELSE Returned([interface |-> iface_name, rx_bytes |-> rx.value,
                            tx_bytes |-> tx.value, kind |-> "Wan"])

\* is_snmp_available: the session opens and the sysDescr GET returns a varbind
is_snmp_available(probe) ==
    /\ probe.session = "Ok"
    /\ probe.get.tag = "Ok"
    /\ probe.get.varbind # None

\* what a device may answer to one GET of a counter OID
CounterAnswers ==
    {GetErr, GetOkEmpty}
    \cup {GetOk(t, v) : t \in {"Counter32", "Counter64"}, v \in 0..MaxRx}
    \cup {GetOk("OctetString", 1)}

\* what a device may answer during one fetch_wan_stats call
WanAnswers ==
    [session : {"Ok", "Err"}, rx : CounterAnswers, tx : CounterAnswers]

\* the record kept of one fetch_wan_stats call
WanRecord(if_index, iface_name, resp, outcome) ==
    [tag |-> "Some", if_index |-> if_index, iface_name |-> iface_name,
     resp |-> resp, outcome |-> outcome]

(***************************************************************************)
(* What the host may answer to a collector                                 *)
(***************************************************************************)
\* sequences of at most three elements of S
UpTo3(S) ==
    {<< >>} \cup {<<a>> : a \in S} \cup {<<a, b>> : a \in S, b \in S}
        \cup {<<a, b, c>> : a \in S, b \in S, c \in S}

\* the two header lines of /proc/net/dev (no colon in either)
ProcNetDevHeader ==
    <<[iface |-> "Inter-|   Receive                    |  Transmit", colon |-> FALSE, data |-> << >>],
      [iface |-> "face |bytes    packets errs drop    |bytes    packets", colon |-> FALSE, data |-> << >>]>>

\* record lines: well formed with 16 or 17 fields, one field short, without a
\* colon, and with a token that is not a number; each counter is at either
\* end of its range
ProcNetDevLines(names) ==
    {[iface |-> n, colon |-> TRUE, data |-> Fields(rx, tx, k)] :
        n \in names, rx \in {0, MaxRx}, tx \in {0, MaxTx}, k \in {MinFields}}
    \cup {[iface |-> n, colon |-> TRUE, data |-> Fields(1, 1, k)] :
            n \in names, k \in {MinFields - 1, MinFields + 1}}
    \cup {[iface |-> n, colon |-> FALSE, data |-> << >>] : n \in names}
    \cup {[iface |-> n, colon |-> TRUE, data |-> Fields(-1, 1, MinFields)] : n \in names}

\* record lines with 16 fields and the largest counters
FullRecordLines(names) ==
    {[iface |-> n, colon |-> TRUE, data |-> Fields(MaxRx, MaxTx, MinFields)] : n \in names}

\* read_to_string("/proc/net/dev"): an error, or the text; the text is the
\* header and records, or records from its first line on
LinuxSources(names) ==
    {[ok |-> FALSE, content |-> << >>], [ok |-> TRUE, content |-> << >>]}
    \cup {[ok |-> TRUE, content |-> ProcNetDevHeader \o d] : d \in UpTo3(ProcNetDevLines(names))}
    \cup {[ok |-> TRUE, content |-> d] : d \in UpTo3(FullRecordLines(names))}

\* getifaddrs: a failure, or the list of entries, some without counter data
MacosSources(names) ==
    {[ok |-> FALSE, list |-> << >>]}
    \cup {[ok |-> TRUE, list |-> l] :
            l \in UpTo3([ifa_name : names, ifa_data : {None}]
                        \cup [ifa_name : names,
                              ifa_data : [ifi_ibytes : {0, MaxRx}, ifi_obytes : {0, MaxTx}]])}

\* GetIfTable2: a failure (or a null table), or the rows
WindowsSources(names) ==
    {[ok |-> FALSE, table |-> << >>]}
    \cup {[ok |-> TRUE, table |-> t] :
            t \in UpTo3([Alias : [text : names, nuls : {1}],
                         InOctets : {0, MaxRx}, OutOctets : {0, MaxTx}])}

Sources(variant, names) ==
    CASE variant = "linux"   -> LinuxSources(names)
      [] variant = "macos"   -> MacosSources(names)
      [] variant = "windows" -> WindowsSources(names)

\* the record kept of one fetch_net_stats call
CollectRecord(variant, sel, src, stats) ==
    [tag |-> "Some", os |-> variant, selected |-> sel, src |-> src, stats |-> stats]

(***************************************************************************)
(* Formatter (src/src/net/format.rs)                                       *)
(***************************************************************************)
\* the 1024.0 of the thresholds and divisors
Kib == 1024

\* n / d rounded to the nearest integer, ties to even
RoundHalfEven(n, d) ==
    LET q == n \div d
        r == n % d
    IN  IF 2 * r > d \/ (2 * r = d /\ q % 2 = 1) THEN q + 1 ELSE q

\* the hundredths of lo / d for lo < d; lo * 100 is formed in two steps when
\* d exceeds 1024 * 1024
Hundredths(lo, d) ==
    IF d <= Kib * Kib
    THEN RoundHalfEven(lo * 100, d)
    ELSE LET a  == lo \div Kib
             b  == lo % Kib
             d2 == d \div Kib
             t  == a * 100 + (b * 100) \div Kib
             rest == (b * 100) % Kib
             q  == t \div d2
             u  == t % d2
         IN  IF 2 * u > d2 \/ (2 * u = d2 /\ (rest > 0 \/ q % 2 = 1)) THEN q + 1 ELSE q

\* format!("{:.0} <unit>", b): the text as its number and its unit
fmt0(b, unit) ==
    [whole |-> b, frac |-> 0, decimals |-> 0, unit |-> unit]

\* format!("{:.2} <unit>", b / d)
fmt2(b, d, unit) ==
    LET h == Hundredths(b % d, d)
    IN  [whole |-> (b \div d) + (h \div 100), frac |-> h % 100, decimals |-> 2, unit |-> unit]

\* the ladder with each threshold taken as inclusive
human_bytes_per_sec_inclusive(bytes) ==
    IF bytes <= Kib THEN fmt0(bytes, "B/s")
    ELSE IF bytes <= Kib * Kib THEN fmt2(bytes, Kib, "KB/s")
    ELSE IF bytes <= Kib * Kib * Kib THEN fmt2(bytes, Kib * Kib, "MB/s")
    ELSE fmt2(bytes, Kib * Kib * Kib, "GB/s")

\* human_bytes_per_sec
human_bytes_per_sec(bytes) ==
    IF bytes < Kib THEN fmt0(bytes, "B/s")
    ELSE IF bytes < Kib * Kib THEN fmt2(bytes, Kib, "KB/s")
    ELSE IF bytes < Kib * Kib * Kib THEN fmt2(bytes, Kib * Kib, "MB/s")
    ELSE fmt2(bytes, Kib * Kib * Kib, "GB/s")

\* human_bits_per_sec: let bps = bytes as f64 * 8.0
human_bits_per_sec(bytes) ==
    LET bps == bytes * 8
    IN  IF bps < Kib THEN fmt0(bps, "bps")
        ELSE IF bps < Kib * Kib THEN fmt2(bps, Kib, "Kbps")
        ELSE IF bps < Kib * Kib * Kib THEN fmt2(bps, Kib * Kib, "Mbps")
        ELSE fmt2(bps, Kib * Kib * Kib, "Gbps")

\* the literal "-- B/s" of the placeholder entries
DashesPerSec == [whole |-> 0, frac |-> 0, decimals |-> 0, unit |-> "-- B/s"]

(***************************************************************************)
(* netgauge-gui: startup (src/netgauge-gui/src/main.rs, main)              *)
(***************************************************************************)
\* const SNMP_IF_PATTERN
SNMP_IF_PATTERN == "ppp"

\* the upper end of the index range detect_interface_index probes
DetectMaxIndex == 50

\* the characters of the strings the model compares by content
Chars(str) ==
    CASE str = "ppp"  -> <<"p", "p", "p">>
      [] str = "ppp0" -> <<"p", "p", "p", "0">>
      [] str = "ppp1" -> <<"p", "p", "p", "1">>
      [] str = "eth0" -> <<"e", "t", "h", "0">>
      [] OTHER        -> << >>

\* str::contains
contains(text, pattern) ==
    LET t == Chars(text)
        q == Chars(pattern)
    IN  \E i \in 1..(Len(t) + 1) :
            /\ i + Len(q) - 1 <= Len(t)
            /\ SubSeq(t, i, i + Len(q) - 1) = q

RECURSIVE detect_from_past_bound(_, _, _)
\* the scan with a range that runs one index too far
detect_from_past_bound(descr, pattern, i) ==
    IF i > DetectMaxIndex + 1
    THEN None
    ELSE IF i \in DOMAIN descr /\ contains(descr[i], pattern)
         THEN [tag |-> "Some", if_index |-> i, if_name |-> descr[i]]
         ELSE detect_from_past_bound(descr, pattern, i + 1)

RECURSIVE detect_from(_, _, _)
\* the scan of detect_interface_index from index i on
detect_from(descr, pattern, i) ==
    IF i > DetectMaxIndex
    THEN None
    ELSE IF i \in DOMAIN descr /\ contains(descr[i], pattern)
         THEN [tag |-> "Some", if_index |-> i, if_name |-> descr[i]]
         ELSE detect_from(descr, pattern, i + 1)

\* detect_interface_index(target, community, name_pattern)
detect_interface_index(descr, pattern) ==
    detect_from(descr, pattern, 1)

\* the detection run whatever the probe answered
auto_detect_unprobed(available, descr, pattern) ==
    detect_interface_index(descr, pattern)

\* let wan_interface = if snmp_available { detect_interface_index(..) } else { None }
auto_detect(available, descr, pattern) ==
    IF available THEN detect_interface_index(descr, pattern) ELSE None

\* format!("{} (WAN)", if_name)
display_name_of(if_name) ==
    CASE if_name = "ppp0" -> "ppp0 (WAN)"
      [] if_name = "ppp1" -> "ppp1 (WAN)"
      [] OTHER            -> "(WAN)"

\* list_interfaces: every non-empty name the host reports
list_interfaces(names) ==
    SelectSeq(names, LAMBDA n : n # "")

\* the ifDescr column a router may have: index -> description
DescrTables == {<< >>, <<"eth0">>, <<"eth0", "ppp0", "ppp1">>}

\* what the device may answer to the probe of is_snmp_available
ProbeAnswers ==
    [session : {"Ok", "Err"}, get : {GetErr, GetOkEmpty, GetOk("OctetString", 1), GetOk("Integer", 1)}]

\* the names the host lists at startup
HostListings == {<<"eth0">>, <<"eth0", "">>}

\* the interfaces the host of the GUI has
PollNames == {"eth0"}

\* the vec![InterfaceMetric { name: "Loading...", .. }] of the initial state
LoadingMetric ==
    [name |-> "Loading...", rx_speed |-> DashesPerSec, tx_speed |-> DashesPerSec, is_wan |-> FALSE]

\* the entry update_global substitutes for an empty list
NoInterfacesMetric ==
    [name |-> "No interfaces found", rx_speed |-> DashesPerSec,
     tx_speed |-> DashesPerSec, is_wan |-> FALSE]

\* deltas.iter().map(|d| InterfaceMetric { .. }).collect()
metrics_of(ds) ==
    [i \in 1..Len(ds) |->
        [name     |-> ds[i].interface,
         rx_speed |-> human_bytes_per_sec(ds[i].rx_delta),
         tx_speed |-> human_bytes_per_sec(ds[i].tx_delta),
         is_wan   |-> ds[i].kind = "Wan"]]

\* for d in wan_deltas { metrics.push(InterfaceMetric { .., is_wan: true }) }
wan_metrics_of(ds) ==
    [i \in 1..Len(ds) |->
        [name     |-> ds[i].interface,
         rx_speed |-> human_bytes_per_sec(ds[i].rx_delta),
         tx_speed |-> human_bytes_per_sec(ds[i].tx_delta),
         is_wan   |-> TRUE]]

(***************************************************************************)
(* netgauge-gui before main has run: nothing probed, no task spawned       *)
(***************************************************************************)
\* let default_selected: InterfaceSet = [..].iter().map(..).collect()
default_selected == {"eth0", "wlan0", "en0", "WiFi", "Ethernet"}

\* RwLock::new(default_selected)
FreeLock == [writer |-> "nobody", readers |-> {}]

GuiNotStarted ==
    /\ os \in OsVariants
    /\ snmp_available = FALSE
    /\ wan_interface = None
    /\ available_interfaces = << >>
    /\ selected_interfaces = default_selected
    /\ lock = FreeLock
    /\ interfaces = << >>
    /\ pollPc = "not_spawned"
    /\ selected = {}
    /\ deltas = << >>
    /\ metrics = << >>
    /\ uiPc = "idle"
    /\ uiIface = ""
    /\ wan_deltas = << >>
    /\ detect = None
    /\ format = None
    /\ tick_previous = << >>
    /\ local_only = [previous |-> << >>, deltas |-> << >>]
    /\ wan_only = [previous |-> << >>, deltas |-> << >>]
    /\ probes = 0
    /\ observed = [last_sample |-> << >>, unobserved |-> {}, reselected |-> {}]
    /\ host_lists = 0
    /\ series = NoSeries
    /\ toggled = <<None, None>>
    /\ wan_calls = 0

(***************************************************************************)
(* A direct caller of the tracker: any batch, any order, names may repeat  *)
(***************************************************************************)
\* the empty batch, every batch of one sample and every batch of two
Batches ==
    LET S == InterfaceStats(TrackNames)
    IN  {<< >>} \cup {<<a>> : a \in S} \cup {<<a, b>> : a \in S, b \in S}

\* DeltaTracker::new
TrackerInit ==
    /\ previous = << >>
    /\ call = None
    /\ collect = None
    /\ wan = None
    /\ GuiNotStarted

\* tracker.update(&stats)
TrackerUpdate ==
    /\ call = None
    /\ \E stats \in Batches :
            LET r == update(previous, stats)
            IN  /\ previous' = r.previous
                /\ call' = CallRecord(previous, stats, r)
    /\ UNCHANGED <<selectorVars, seriesVars, hostVars, detectVars, formatVars,
                   historyVars, collectVars, wanVars, guiVars>>

\* the caller is done with the returned Vec<NetDelta>
TrackerReturn ==
    /\ call # None
    /\ call' = None
    /\ UNCHANGED <<selectorVars, seriesVars, hostVars, detectVars, formatVars,
                   historyVars, previous, collectVars, wanVars, guiVars>>

TrackerNext ==
    \/ TrackerUpdate
    \/ TrackerReturn

TrackerSpec == TrackerInit /\ [][TrackerNext]_vars

(***************************************************************************)
(* A caller that follows one interface through a sequence of update calls  *)
(***************************************************************************)
\* the batches of the caller: the interface itself with any counters, and the
\* other interfaces with both counters at either end of the range
SeriesBatches ==
    LET S == [interface : {SeriesName}, rx_bytes : 0..MaxRx, tx_bytes : 0..MaxTx,
              kind : {"Net"}]
             \cup {[interface |-> n, rx_bytes |-> e * MaxRx, tx_bytes |-> e * MaxTx,
                    kind |-> "Net"] : n \in TrackNames \ {SeriesName}, e \in {0, 1}}
    IN  {<< >>} \cup {<<a>> : a \in S} \cup {<<a, b>> : a \in S, b \in S}

\* DeltaTracker::new
SeriesInit ==
    /\ previous = << >>
    /\ call = None
    /\ collect = None
    /\ wan = None
    /\ GuiNotStarted

\* tracker.update(&stats), as long as no sum passes MaxSum
Observe ==
    /\ \E stats \in SeriesBatches :
        \E r \in {update(previous, stats)} :
        \E se \in {follow(series, stats, r.deltas)} :
            /\ \A k \in 1..2 : se.gained[k] <= MaxSum /\ se.up[k] <= MaxSum
                                 /\ se.down[k] <= MaxSum
            /\ previous' = r.previous
            /\ series' = se
    /\ UNCHANGED <<selectorVars, hostVars, detectVars, formatVars, historyVars, call,
                   collectVars, wanVars, guiVars>>

SeriesNext ==
    Observe

SeriesSpec == SeriesInit /\ [][SeriesNext]_vars

(***************************************************************************)
(* A direct caller of a collector: any selection, any host answer          *)
(***************************************************************************)
CollectInit ==
    /\ collect = None
    /\ previous = << >>
    /\ call = None
    /\ wan = None
    /\ GuiNotStarted

\* fetch_net_stats(&selected)
Collect ==
    /\ collect = None
    /\ \E variant \in OsVariants, sel \in SUBSET HostNames :
        \E src \in Sources(variant, HostNames) :
        \E stats \in fetch_net_stats(variant, sel, src) :
            /\ collect' = CollectRecord(variant, sel, src, stats)
            /\ host_lists' = held_after(host_lists, obtained_by_fetch(variant, src),
                                        released_by_fetch(variant, src))
    /\ UNCHANGED <<selectorVars, seriesVars, detectVars, formatVars, historyVars,
                   trackerVars, wanVars, guiVars>>

\* the caller is done with the returned Vec<InterfaceStats>
CollectReturn ==
    /\ collect # None
    /\ collect' = None
    /\ UNCHANGED <<selectorVars, seriesVars, hostVars, detectVars, formatVars,
                   historyVars, trackerVars, wanVars, guiVars>>

\* list_interfaces(), the names dropped by the caller: GetIfTable2 fails (or
\* gives a null table) and the call returns early, or the rows are walked
ListInterfaces ==
    /\ collect = None
    /\ \E variant \in {"windows"}, ok \in BOOLEAN :
            host_lists' = held_after(host_lists, obtained_by_list_interfaces(variant, ok),
                                    released_by_list_interfaces(variant, ok))
    /\ UNCHANGED <<selectorVars, seriesVars, detectVars, formatVars, historyVars,
                   trackerVars, collectVars, wanVars, guiVars>>

CollectNext ==
    \/ Collect
    \/ CollectReturn
    \/ ListInterfaces

CollectSpec == CollectInit /\ [][CollectNext]_vars

(***************************************************************************)
(* A direct caller of the SNMP WAN collector: any answer of the device     *)
(***************************************************************************)
\* interface indices and display names a caller passes
WanIndices == {1, 26}

WanNames == {"WAN", "ppp0 (WAN)"}

WanInit ==
    /\ wan = None
    /\ collect = None
    /\ previous = << >>
    /\ call = None
    /\ GuiNotStarted

\* fetch_wan_stats(target, community, if_index, iface_name)
FetchWan ==
    /\ wan = None
    /\ \E if_index \in WanIndices, iface_name \in WanNames, resp \in WanAnswers :
            wan' = WanRecord(if_index, iface_name, resp,
                             fetch_wan_stats(if_index, iface_name, resp))
    /\ UNCHANGED <<selectorVars, seriesVars, hostVars, detectVars, formatVars,
                   historyVars, trackerVars, collectVars, guiVars>>

\* the caller is done with the returned InterfaceStats
FetchWanReturn ==
    /\ wan # None
    /\ wan.outcome.tag = "Returned"
    /\ wan' = None
    /\ UNCHANGED <<selectorVars, seriesVars, hostVars, detectVars, formatVars,
                   historyVars, trackerVars, collectVars, guiVars>>

WanNext ==
    \/ FetchWan
    \/ FetchWanReturn

WanSpec == WanInit /\ [][WanNext]_vars

(***************************************************************************)
(* A direct caller of detect_interface_index: any ifDescr column, any      *)
(* pattern                                                                 *)
(***************************************************************************)
\* the indices at which the device may have an interface: the low ones, the
\* last one of the range and the first one past it
DetectIndices == {1, 2, 3, DetectMaxIndex, DetectMaxIndex + 1}

\* the descriptions the device may report
DetectDescrs == {"eth0", "ppp0", "ppp1"}

\* the ifDescr columns: a description at any subset of the indices
DetectTables ==
    UNION {[S -> DetectDescrs] : S \in SUBSET DetectIndices}

\* the name patterns a caller passes
DetectPatterns == {"ppp", "ppp1", "eth0"}

\* the record kept of one detect_interface_index call
DetectRecord(descr, pattern, result) ==
    [tag |-> "Some", descr |-> descr, pattern |-> pattern, result |-> result]

DetectInit ==
    /\ previous = << >>
    /\ call = None
    /\ collect = None
    /\ wan = None
    /\ GuiNotStarted

\* detect_interface_index(target, community, name_pattern)
Detect ==
    /\ detect = None
    /\ \E descr \in DetectTables, pattern \in DetectPatterns :
            detect' = DetectRecord(descr, pattern, detect_interface_index(descr, pattern))
    /\ UNCHANGED <<selectorVars, seriesVars, hostVars, formatVars, historyVars,
                   trackerVars, collectVars, wanVars, guiVars>>

\* the caller is done with the returned Option<(u32, String)>
DetectReturn ==
    /\ detect # None
    /\ detect' = None
    /\ UNCHANGED <<selectorVars, seriesVars, hostVars, formatVars, historyVars,
                   trackerVars, collectVars, wanVars, guiVars>>

DetectNext ==
    \/ Detect
    \/ DetectReturn

DetectSpec == DetectInit /\ [][DetectNext]_vars

(***************************************************************************)
(* A direct caller of the formatter: rates around every threshold          *)
(***************************************************************************)
\* the rates handed to human_bytes_per_sec: the small ones, the ones next to
\* 1024, 1024^2 and 1024^3, halves and near-halves of a unit, and the largest
\* value a 32-bit signed integer holds
FormatBytesInputs ==
    (0..130) \cup (1019..1030) \cup {1536, 2047, 2048, 10235, 10240, 1047552}
    \cup {Kib * Kib - 1, Kib * Kib, Kib * Kib + 1, 1572864, 1073217536}
    \cup {Kib * Kib * Kib - 1, Kib * Kib * Kib, Kib * Kib * Kib + 1, 1610612736, 2147483647}

\* the rates handed to human_bits_per_sec: eight times each is a rate above
FormatBitsInputs ==
    (0..130) \cup {192, 1279, 1280, 131071, 131072, 131073, 196608,
                   134217727, 134217728, 134217729, 201326592, 268435455}

\* the record kept of one formatter call
FormatRecord(fn, arg, text) ==
    [tag |-> "Some", fn |-> fn, arg |-> arg, text |-> text]

FormatInit ==
    /\ previous = << >>
    /\ call = None
    /\ collect = None
    /\ wan = None
    /\ GuiNotStarted

\* format::human_bytes_per_sec(d.rx_delta)
FormatBytes ==
    /\ format = None
    /\ \E b \in FormatBytesInputs :
            format' = FormatRecord("human_bytes_per_sec", b, human_bytes_per_sec(b))
    /\ UNCHANGED <<selectorVars, seriesVars, hostVars, detectVars, historyVars,
                   trackerVars, collectVars, wanVars, guiVars>>

\* format::human_bits_per_sec(d.rx_delta)
FormatBits ==
    /\ format = None
    /\ \E b \in FormatBitsInputs :
            format' = FormatRecord("human_bits_per_sec", b, human_bits_per_sec(b))
    /\ UNCHANGED <<selectorVars, seriesVars, hostVars, detectVars, historyVars,
                   trackerVars, collectVars, wanVars, guiVars>>

\* the caller has printed the String
FormatReturn ==
    /\ format # None
    /\ format' = None
    /\ UNCHANGED <<selectorVars, seriesVars, hostVars, detectVars, historyVars,
                   trackerVars, collectVars, wanVars, guiVars>>

FormatNext ==
    \/ FormatBytes
    \/ FormatBits
    \/ FormatReturn

FormatSpec == FormatInit /\ [][FormatNext]_vars

(***************************************************************************)
(* netgauge-gui: main, the polling task and the selector view              *)
(* (src/netgauge-gui/src/main.rs)                                          *)
(***************************************************************************)
\* the tables a host with the interfaces PollNames reports: the rows of any
\* subset of them, each once, in any order
\* the counters the GUI's host reports are at either end of the range
PollRows ==
    [name : PollNames, rx : {0, MaxRx}, tx : {0, MaxTx}]

PollTables ==
    {<< >>} \cup {<<a>> : a \in PollRows}
        \cup {t \in {<<a, b>> : a \in PollRows, b \in PollRows} : t[1].name # t[2].name}

\* a table as the text of /proc/net/dev, as an ifaddrs list, as a MIB_IF_TABLE2
AsProcNetDev(t) ==
    ProcNetDevHeader \o
        [i \in 1..Len(t) |-> [iface |-> t[i].name, colon |-> TRUE,
                              data |-> Fields(t[i].rx, t[i].tx, MinFields)]]

AsIfaddrs(t) ==
    [i \in 1..Len(t) |-> [ifa_name |-> t[i].name,
                          ifa_data |-> [ifi_ibytes |-> t[i].rx, ifi_obytes |-> t[i].tx]]]

AsIfTable2(t) ==
    [i \in 1..Len(t) |-> [Alias |-> [text |-> t[i].name, nuls |-> 1],
                          InOctets |-> t[i].rx, OutOctets |-> t[i].tx]]

\* what the host of the GUI may answer to one fetch_net_stats call
PollSourcesLinux ==
    {[ok |-> FALSE, content |-> << >>]}
    \cup {[ok |-> TRUE, content |-> AsProcNetDev(t)] : t \in PollTables}

PollSourcesMacos ==
    {[ok |-> FALSE, list |-> << >>]}
    \cup {[ok |-> TRUE, list |-> AsIfaddrs(t)] : t \in PollTables}

PollSourcesWindows ==
    {[ok |-> FALSE, table |-> << >>]}
    \cup {[ok |-> TRUE, table |-> AsIfTable2(t)] : t \in PollTables}

PollSources ==
    CASE os = "linux"   -> PollSourcesLinux
      [] os = "macos"   -> PollSourcesMacos
      [] os = "windows" -> PollSourcesWindows

\* what the router may answer to one GET of the GUI
PollCounterAnswers ==
    {GetErr, GetOk("OctetString", 1)} \cup {GetOk("Counter64", v) : v \in {0, MaxRx}}

PollWanAnswers ==
    [session : {"Ok"}, rx : PollCounterAnswers, tx : PollCounterAnswers]

GuiInit ==
    /\ previous = << >>
    /\ call = None
    /\ collect = None
    /\ wan = None
    /\ GuiNotStarted

\* main: the probe, the auto-detection, the initial global state, the spawn of
\* the polling task (which starts with DeltaTracker::new)
MainOn(listings) ==
    /\ pollPc = "not_spawned"
    /\ \E probe \in ProbeAnswers, descr \in DescrTables, listing \in listings,
          ok \in BOOLEAN :
            LET available == is_snmp_available(probe)
            IN  /\ snmp_available' = available
                /\ wan_interface' = auto_detect(available, descr, SNMP_IF_PATTERN)
                /\ available_interfaces' = IF ok THEN list_interfaces(listing) ELSE << >>
                /\ host_lists' = held_after(host_lists, obtained_by_list_interfaces(os, ok),
                                            released_by_list_interfaces(os, ok))
    /\ selected_interfaces' = default_selected
    /\ interfaces' = <<LoadingMetric>>
    /\ previous' = << >>
    /\ pollPc' = "loop"
    /\ probes' = probes + 1
    /\ UNCHANGED <<selectorVars, seriesVars, detectVars, formatVars, tick_previous,
                   local_only, wan_only, wan_calls, observed, wan_deltas, call,
                   collectVars, wanVars, os, lock, selected, deltas, metrics, uiPc,
                   uiIface>>

\* main on a host that lists eth0, or eth0 and an interface without a name
Main ==
    MainOn(HostListings)

\* selected_for_task.read(): the guard is taken once no writer holds the lock
PollReadLock ==
    /\ pollPc = "loop"
    /\ lock.writer = "nobody"
    /\ lock' = [lock EXCEPT !.readers = @ \cup {"poll"}]
    /\ pollPc' = "read_locked"
    /\ UNCHANGED <<selectorVars, seriesVars, hostVars, detectVars, formatVars,
                   historyVars, wan_deltas, trackerVars, collectVars, wanVars, os,
                   snmp_available, wan_interface, available_interfaces,
                   selected_interfaces, interfaces, selected, deltas, metrics, uiPc,
                   uiIface>>

\* the guard bound to a local that lives to the end of the iteration
PollCloneKeepingGuard ==
    /\ pollPc = "read_locked"
    /\ selected' = selected_interfaces
    /\ pollPc' = "fetch_net_stats"
    /\ UNCHANGED <<selectorVars, seriesVars, hostVars, detectVars, formatVars,
                   historyVars, wan_deltas, trackerVars, collectVars, wanVars, os,
                   snmp_available, wan_interface, available_interfaces,
                   selected_interfaces, lock, interfaces, deltas, metrics, uiPc,
                   uiIface>>

\* .unwrap().clone(): the snapshot; the temporary guard is dropped with the statement
PollClone ==
    /\ pollPc = "read_locked"
    /\ selected' = selected_interfaces
    /\ lock' = [lock EXCEPT !.readers = @ \ {"poll"}]
    /\ pollPc' = "fetch_net_stats"
    /\ UNCHANGED <<selectorVars, seriesVars, hostVars, detectVars, formatVars,
                   historyVars, wan_deltas, trackerVars, collectVars, wanVars, os,
                   snmp_available, wan_interface, available_interfaces,
                   selected_interfaces, interfaces, deltas, metrics, uiPc, uiIface>>

\* history of the local samples: the raw pair each name last showed, the
\* names that a snapshot since then left out, and the names of this batch that
\* had been left out
observe(obs, snapshot, stats) ==
    LET names == {stats[i].interface : i \in 1..Len(stats)}
        last(n) == stats[CHOOSE i \in 1..Len(stats) :
                            /\ stats[i].interface = n
                            /\ \A j \in 1..Len(stats) : stats[j].interface = n => j <= i]
    IN  [last_sample |-> [n \in DOMAIN obs.last_sample \cup names |->
                            IF n \in names
                            THEN <<last(n).rx_bytes, last(n).tx_bytes>>
                            ELSE obs.last_sample[n]],
         unobserved  |-> (obs.unobserved \cup {n \in DOMAIN obs.last_sample : n \notin snapshot})
                            \ names,
         reselected  |-> obs.unobserved \cap names]

\* the collector handed the shared set itself instead of the snapshot
PollFetchNetStatsLive ==
    /\ pollPc = "fetch_net_stats"
    /\ \E src \in PollSources :
        \E stats \in fetch_net_stats(os, selected_interfaces, src) :
            LET r == update(previous, stats)
            IN  /\ collect' = CollectRecord(os, selected_interfaces, src, stats)
                /\ previous' = r.previous
                /\ deltas' = r.deltas
                /\ metrics' = metrics_of(r.deltas)
                /\ local_only' = update(local_only.previous, stats)
                /\ host_lists' = held_after(host_lists, obtained_by_fetch(os, src),
                                            released_by_fetch(os, src))
                /\ observed' = observe(observed, selected, stats)
    /\ tick_previous' = previous
    /\ pollPc' = IF wan_interface # None THEN "fetch_wan_stats" ELSE "update_global"
    /\ UNCHANGED <<selectorVars, seriesVars, detectVars, formatVars, wan_only, probes,
                   wan_calls, wan_deltas, call, wanVars, os, snmp_available,
                   wan_interface, available_interfaces, selected_interfaces, lock,
                   interfaces, selected, uiPc, uiIface>>

\* fetch_net_stats(&selected); tracker.update(&stats); the metrics of the deltas
PollFetchNetStats ==
    /\ pollPc = "fetch_net_stats"
    /\ \E src \in PollSources :
        \E stats \in fetch_net_stats(os, selected, src) :
            LET r == update(previous, stats)
            IN  /\ collect' = CollectRecord(os, selected, src, stats)
                /\ previous' = r.previous
                /\ deltas' = r.deltas
                /\ metrics' = metrics_of(r.deltas)
                /\ local_only' = update(local_only.previous, stats)
                /\ host_lists' = held_after(host_lists, obtained_by_fetch(os, src),
                                            released_by_fetch(os, src))
                /\ observed' = observe(observed, selected, stats)
    /\ tick_previous' = previous
    /\ pollPc' = IF wan_interface # None THEN "fetch_wan_stats" ELSE "update_global"
    /\ UNCHANGED <<selectorVars, seriesVars, detectVars, formatVars, wan_only, probes,
                   wan_calls, wan_deltas, call, wanVars, os, snmp_available,
                   wan_interface, available_interfaces, selected_interfaces, lock,
                   interfaces, selected, uiPc, uiIface>>

\* if let Some((if_index, ref if_name)) = wan_interface: fetch_wan_stats, then
\* tracker.update(&[wan_stats]) and the push of its metrics; a panic ends the task
PollFetchWanStats ==
    /\ pollPc = "fetch_wan_stats"
    /\ \E resp \in PollWanAnswers :
            LET name    == display_name_of(wan_interface.if_name)
                outcome == fetch_wan_stats(wan_interface.if_index, name, resp)
                r       == update_wan(previous, outcome.value)
            IN  /\ wan' = WanRecord(wan_interface.if_index, name, resp, outcome)
                /\ IF outcome.tag = "Panicked"
                   THEN /\ pollPc' = "panicked"
                        /\ UNCHANGED <<previous, metrics, wan_deltas, wan_only>>
                   ELSE /\ previous' = r.previous
                        /\ wan_deltas' = r.deltas
                        /\ metrics' = metrics \o wan_metrics_of(r.deltas)
                        /\ wan_only' = update(wan_only.previous, <<outcome.value>>)
                        /\ pollPc' = "update_global"
    /\ collect' = None
    /\ wan_calls' = wan_calls + 1
    /\ UNCHANGED <<selectorVars, seriesVars, hostVars, detectVars, formatVars,
                   tick_previous, local_only, probes, call, os, observed,
                   snmp_available, wan_interface, available_interfaces,
                   selected_interfaces, lock, interfaces, selected, deltas, uiPc,
                   uiIface>>

\* cx.update_global: state.interfaces = the placeholder if metrics is empty,
\* else metrics; cx.refresh_windows()
PollUpdateGlobal ==
    /\ pollPc = "update_global"
    /\ interfaces' = IF metrics = << >> THEN <<NoInterfacesMetric>> ELSE metrics
    /\ pollPc' = "timer"
    /\ collect' = None
    /\ wan' = None
    /\ tick_previous' = << >>
    /\ UNCHANGED <<selectorVars, seriesVars, hostVars, detectVars, formatVars,
                   local_only, wan_only, probes, wan_calls, observed, wan_deltas,
                   trackerVars, os, snmp_available, wan_interface, available_interfaces,
                   selected_interfaces, lock, selected, deltas, metrics, uiPc, uiIface>>

\* Timer::after(Duration::from_secs(1)).await; the locals of the iteration are gone
PollTimer ==
    /\ pollPc = "timer"
    /\ pollPc' = "loop"
    /\ selected' = {}
    /\ deltas' = << >>
    /\ metrics' = << >>
    /\ wan_deltas' = << >>
    /\ local_only' = [local_only EXCEPT !.deltas = << >>]
    /\ wan_only' = [wan_only EXCEPT !.deltas = << >>]
    /\ wan_calls' = 0
    /\ observed' = [observed EXCEPT !.reselected = {}]
    /\ UNCHANGED <<selectorVars, seriesVars, hostVars, detectVars, formatVars,
                   tick_previous, probes, trackerVars, collectVars, wanVars, os,
                   snmp_available, wan_interface, available_interfaces,
                   selected_interfaces, lock, interfaces, uiPc, uiIface>>

\* a toggle that only ever selects
toggle_insert(sel, iface) ==
    sel \cup {iface}

\* if sel.contains(&iface) { sel.remove(&iface) } else { sel.insert(iface) }
toggle(sel, iface) ==
    IF iface \in sel THEN sel \ {iface} ELSE sel \cup {iface}

\* a click on item ix of the selector list: the onclick closure starts
UiClick ==
    /\ pollPc # "not_spawned"
    /\ uiPc = "idle"
    /\ \E ix \in 1..Len(available_interfaces) :
            uiIface' = available_interfaces[ix]
    /\ uiPc' = "onclick"
    /\ UNCHANGED <<selectorVars, seriesVars, hostVars, detectVars, formatVars,
                   historyVars, wan_deltas, trackerVars, collectVars, wanVars, os,
                   snmp_available, wan_interface, available_interfaces,
                   selected_interfaces, lock, interfaces, pollPc, selected, deltas,
                   metrics>>

\* selected_clone.write(): taken once nobody holds the lock
UiWriteLock ==
    /\ uiPc = "onclick"
    /\ lock = FreeLock
    /\ lock' = [lock EXCEPT !.writer = "ui"]
    /\ uiPc' = "write_locked"
    /\ UNCHANGED <<selectorVars, seriesVars, hostVars, detectVars, formatVars,
                   historyVars, wan_deltas, trackerVars, collectVars, wanVars, os,
                   snmp_available, wan_interface, available_interfaces,
                   selected_interfaces, interfaces, pollPc, selected, deltas, metrics,
                   uiIface>>

\* if sel.contains(..) { sel.remove(..) } else { sel.insert(..) }; the guard
\* is dropped when the closure returns
UiToggle ==
    /\ uiPc = "write_locked"
    /\ selected_interfaces' = toggle(selected_interfaces, uiIface)
    /\ lock' = [lock EXCEPT !.writer = "nobody"]
    /\ uiPc' = "idle"
    /\ uiIface' = ""
    /\ UNCHANGED <<selectorVars, seriesVars, hostVars, detectVars, formatVars,
                   historyVars, wan_deltas, trackerVars, collectVars, wanVars, os,
                   snmp_available, wan_interface, available_interfaces, interfaces,
                   pollPc, selected, deltas, metrics>>

\* item_renderer: selected_lock.read() for the checkbox of a list item
UiRenderReadLock ==
    /\ pollPc # "not_spawned"
    /\ uiPc = "idle"
    /\ lock.writer = "nobody"
    /\ available_interfaces # << >>
    /\ lock' = [lock EXCEPT !.readers = @ \cup {"ui"}]
    /\ uiPc' = "render_locked"
    /\ UNCHANGED <<selectorVars, seriesVars, hostVars, detectVars, formatVars,
                   historyVars, wan_deltas, trackerVars, collectVars, wanVars, os,
                   snmp_available, wan_interface, available_interfaces,
                   selected_interfaces, interfaces, pollPc, selected, deltas, metrics,
                   uiIface>>

\* .unwrap().clone(): the copy for the label; the guard is dropped
UiRenderClone ==
    /\ uiPc = "render_locked"
    /\ lock' = [lock EXCEPT !.readers = @ \ {"ui"}]
    /\ uiPc' = "idle"
    /\ UNCHANGED <<selectorVars, seriesVars, hostVars, detectVars, formatVars,
                   historyVars, wan_deltas, trackerVars, collectVars, wanVars, os,
                   snmp_available, wan_interface, available_interfaces,
                   selected_interfaces, interfaces, pollPc, selected, deltas, metrics,
                   uiIface>>

Next ==
    \/ Main
    \/ PollReadLock
    \/ PollClone
    \/ PollFetchNetStats
    \/ PollFetchWanStats
    \/ PollUpdateGlobal
    \/ PollTimer
    \/ UiClick
    \/ UiWriteLock
    \/ UiToggle
    \/ UiRenderReadLock
    \/ UiRenderClone

Spec == GuiInit /\ [][Next]_vars

(***************************************************************************)
(* netgauge-gui: the selector view and the snapshots of the polling task,  *)
(* on a host with two interfaces to toggle                                 *)
(***************************************************************************)
\* the names the host lists: one in the default selection, one not
SelectorListings == {<<"eth0", "lo">>}

SelectorMain ==
    MainOn(SelectorListings)

\* the onclick closure, with the history of the last two toggles
SelectorToggle ==
    /\ uiPc = "write_locked"
    /\ selected_interfaces' = toggle(selected_interfaces, uiIface)
    /\ lock' = [lock EXCEPT !.writer = "nobody"]
    /\ uiPc' = "idle"
    /\ uiIface' = ""
    /\ toggled' = <<[tag |-> "Some", name |-> uiIface, before |-> selected_interfaces],
                    toggled[1]>>
    /\ UNCHANGED <<seriesVars, hostVars, detectVars, formatVars, historyVars,
                   wan_deltas, trackerVars, collectVars, wanVars, os, snmp_available,
                   wan_interface, available_interfaces, interfaces, pollPc, selected,
                   deltas, metrics>>

\* the rest of the tick, from fetch_net_stats to the timer: it works on the
\* snapshot and touches neither the shared set nor its lock
SelectorTickDone ==
    /\ pollPc = "fetch_net_stats"
    /\ pollPc' = "loop"
    /\ selected' = {}
    /\ UNCHANGED <<selectorVars, seriesVars, hostVars, detectVars, formatVars,
                   historyVars, wan_deltas, trackerVars, collectVars, wanVars, os,
                   snmp_available, wan_interface, available_interfaces,
                   selected_interfaces, lock, interfaces, deltas, metrics, uiPc,
                   uiIface>>

SelectorNext ==
    \/ SelectorMain
    \/ UiClick
    \/ UiWriteLock
    \/ SelectorToggle
    \/ UiRenderReadLock
    \/ UiRenderClone
    \/ PollReadLock
    \/ PollClone
    \/ SelectorTickDone

SelectorSpec == GuiInit /\ [][SelectorNext]_vars

(***************************************************************************)
(* Properties of DeltaTracker.update                                       *)
(***************************************************************************)
\* the pair the map holds for the name of sample i at the moment sample i is
\* processed: the raw values of the nearest earlier sample of that name in the
\* batch, else the entry the map had before the call, else None
StoredBefore(c, i) ==
    LET name == c.stats[i].interface
        js   == {j \in 1..(i - 1) : c.stats[j].interface = name}
    IN  IF js # {}
        THEN LET j == CHOOSE k \in js : \A m \in js : m <= k
             IN  [tag |-> "Some", rx |-> c.stats[j].rx_bytes, tx |-> c.stats[j].tx_bytes]
        ELSE IF name \in DOMAIN c.before
             THEN [tag |-> "Some", rx |-> c.before[name][1], tx |-> c.before[name][2]]
             ELSE None

\* max(0, current - previous), written without the tracker's operators
ClampedDiff(cur, prv) ==
    IF cur >= prv THEN cur - prv ELSE 0

\* C1: for a name the tracker has already observed, rx_delta is current_rx -
\* previous_rx when current_rx >= previous_rx and 0 when it decreased, and
\* tx_delta follows the same rule from the tx counters alone.
C1_DeltaIsClampedDifference ==
    call # None =>
        \A i \in 1..Len(call.stats) :
            LET p == StoredBefore(call, i)
            IN  p # None =>
                    /\ call.deltas[i].rx_delta = ClampedDiff(call.stats[i].rx_bytes, p.rx)
                    /\ call.deltas[i].tx_delta = ClampedDiff(call.stats[i].tx_bytes, p.tx)

\* a seen name whose rx counter decreased while its tx counter grew
C1_Witness ==
    /\ call # None
    /\ \E i \in 1..Len(call.stats) :
            LET p == StoredBefore(call, i)
            IN  /\ p # None
                /\ call.stats[i].rx_bytes < p.rx
                /\ call.stats[i].tx_bytes > p.tx
                /\ call.deltas[i].rx_delta = 0
                /\ call.deltas[i].tx_delta > 0

\* C2: the first time update sees a name, the NetDelta of that sample has
\* rx_delta = 0 and tx_delta = 0 whatever the counters are.
C2_FirstSightIsZero ==
    call # None =>
        \A i \in 1..Len(call.stats) :
            StoredBefore(call, i) = None =>
                /\ call.deltas[i].rx_delta = 0
                /\ call.deltas[i].tx_delta = 0

\* a first sight with non-zero counters
C2_Witness ==
    /\ call # None
    /\ \E i \in 1..Len(call.stats) :
            /\ StoredBefore(call, i) = None
            /\ call.stats[i].rx_bytes > 0
            /\ call.stats[i].tx_bytes > 0
            /\ call.deltas[i].rx_delta = 0
            /\ call.deltas[i].tx_delta = 0

\* C3: after update, the stored pair of every name of the batch is the raw
\* pair the batch carries for that name (the one of its last sample of that
\* name), whether the delta was positive, a first sight or clamped.
C3_StoredIsRaw ==
    call # None =>
        \A i \in 1..Len(call.stats) :
            (\A j \in (i + 1)..Len(call.stats) : call.stats[j].interface # call.stats[i].interface)
                => /\ call.stats[i].interface \in DOMAIN previous
                   /\ previous[call.stats[i].interface]
                        = <<call.stats[i].rx_bytes, call.stats[i].tx_bytes>>

\* a clamped decrease whose lower raw value is now the stored one
C3_Witness ==
    /\ call # None
    /\ \E i \in 1..Len(call.stats) :
            LET p == StoredBefore(call, i)
            IN  /\ i = Len(call.stats)
                /\ p # None
                /\ call.stats[i].rx_bytes < p.rx
                /\ call.deltas[i].rx_delta = 0
                /\ previous[call.stats[i].interface][1] = call.stats[i].rx_bytes

\* C4: update returns one NetDelta per sample in the order of the batch: the
\* i-th output has the name and the kind of the i-th input and the lengths
\* are equal (an empty batch gives an empty list).
C4_OnePerSampleInOrder ==
    call # None =>
        /\ Len(call.deltas) = Len(call.stats)
        /\ \A i \in 1..Len(call.stats) :
                /\ call.deltas[i].interface = call.stats[i].interface
                /\ call.deltas[i].kind = call.stats[i].kind

\* a batch of two samples of different names and kinds
C4_Witness ==
    /\ call # None
    /\ Len(call.stats) = 2
    /\ Len(call.deltas) = 2
    /\ call.stats[1].interface # call.stats[2].interface
    /\ call.stats[1].kind # call.stats[2].kind
    /\ call.deltas[1].interface = call.stats[1].interface

\* the names of the samples of a batch
BatchNames(stats) ==
    {stats[i].interface : i \in 1..Len(stats)}

\* C24: over any sequence of observations of an interface the sum of the rx
\* (tx) deltas update returned for it is the sum of the upward steps of its
\* raw counter, so never more than their total; when the counter never
\* stepped down the sum is the last observed value minus the first.
C24_DeltasTelescope ==
    series.seen =>
        \A k \in 1..2 :
            /\ series.gained[k] = series.up[k]
            /\ series.gained[k] <= series.up[k]
            /\ series.down[k] = 0 => series.gained[k] = series.last[k] - series.first[k]

\* rx went from 0 to MaxRx without a step down: the deltas sum to MaxRx; tx
\* stepped down and up again: its deltas sum to more than last minus first
C24_Witness ==
    /\ series.seen
    /\ series.down[1] = 0
    /\ series.first[1] = 0
    /\ series.last[1] = MaxRx
    /\ series.gained[1] = MaxRx
    /\ series.down[2] > 0
    /\ series.gained[2] > 0
    /\ series.gained[2] > series.last[2] - series.first[2]
    /\ previous[SeriesName] = series.last

\* C19: update never drops a name from the map and leaves the pair of every
\* name that is not in its batch as it was.
C19_NeverEvicted ==
    call # None =>
        /\ DOMAIN call.before \subseteq DOMAIN previous
        /\ \A n \in DOMAIN call.before \cap DOMAIN previous :
                n \notin BatchNames(call.stats) => previous[n] = call.before[n]

\* a batch without a stored name whose non-zero pair is still there
C19_Witness ==
    /\ call # None
    /\ call.stats # << >>
    /\ \E n \in DOMAIN call.before :
            /\ n \notin BatchNames(call.stats)
            /\ call.before[n] = <<MaxRx, MaxTx>>
            /\ previous[n] = call.before[n]

(***************************************************************************)
(* Properties of the platform collectors                                   *)
(***************************************************************************)
\* the elements of a sequence
Range(q) ==
    {q[i] : i \in 1..Len(q)}

\* the names the host reported in a record the collector can use: a
\* /proc/net/dev line after the two header lines with a colon and at least 16
\* fields, an ifaddrs entry that carries counter data, a table row
WellFormedNames(c) ==
    CASE c.os = "linux" ->
            {c.src.content[k].iface : k \in {j \in 3..Len(c.src.content) :
                /\ c.src.content[j].colon
                /\ Len(c.src.content[j].data) >= 16}}
      [] c.os = "macos" ->
            {e.ifa_name : e \in {x \in Range(c.src.list) : x.ifa_data # None}}
      [] c.os = "windows" ->
            {r.Alias.text : r \in Range(c.src.table)}

\* every name the host reported, usable record or not
ReportedNames(c) ==
    CASE c.os = "linux"   -> {c.src.content[k].iface : k \in 3..Len(c.src.content)}
      [] c.os = "macos"   -> {e.ifa_name : e \in Range(c.src.list)}
      [] c.os = "windows" -> {r.Alias.text : r \in Range(c.src.table)}

\* C9: with a non-empty selection every returned sample is named in the
\* selection, and every selected host interface with a well-formed record is
\* in the output.
C9_OnlyAndAllSelected ==
    (collect # None /\ collect.selected # {}) =>
        /\ \A i \in 1..Len(collect.stats) : collect.stats[i].interface \in collect.selected
        /\ collect.src.ok =>
                \A n \in WellFormedNames(collect) \cap collect.selected :
                    \E i \in 1..Len(collect.stats) : collect.stats[i].interface = n

\* selection {eth0} over host interfaces {eth0, lo, docker0}: only eth0 comes out
C9_Witness ==
    /\ collect # None
    /\ collect.selected = {"eth0"}
    /\ collect.src.ok
    /\ WellFormedNames(collect) = {"eth0", "lo", "docker0"}
    /\ Len(collect.stats) = 1
    /\ collect.stats[1].interface = "eth0"

\* the sample a table row yields
RowSample(row) ==
    [interface |-> row.Alias.text, rx_bytes |-> row.InOctets,
     tx_bytes |-> row.OutOctets, kind |-> "Net"]

\* the row is named in the selection of the last collector call
RowIsSelected(row) ==
    row.Alias.text \in collect.selected

\* C10: in the interface-table variant an empty selection selects every row,
\* one sample per row; a non-empty selection keeps exactly the rows whose
\* decoded name is in the selection.
C10_EmptySelectsAll ==
    (collect # None /\ collect.os = "windows" /\ collect.src.ok) =>
        LET kept == IF collect.selected = {}
                    THEN collect.src.table
                    ELSE SelectSeq(collect.src.table, RowIsSelected)
        IN  /\ Len(collect.stats) = Len(kept)
            /\ \A i \in 1..Len(kept) : collect.stats[i] = RowSample(kept[i])

\* an empty selection over a table of three rows gives three samples
C10_Witness ==
    /\ collect # None
    /\ collect.os = "windows"
    /\ collect.src.ok
    /\ collect.selected = {}
    /\ Len(collect.src.table) = 3
    /\ Len(collect.stats) = 3

\* the positions in the text of the lines that are to yield a sample: past
\* the two header lines, named in the selection, with a colon and at least
\* 16 fields after it
YieldingLines(c) ==
    {k \in 3..Len(c.src.content) :
        /\ c.src.content[k].iface \in c.selected
        /\ c.src.content[k].colon
        /\ Len(c.src.content[k].data) >= 16}

\* a field as a counter: its number, or 0 when it is not one
CounterOfField(token) ==
    IF token >= 0 THEN token ELSE 0

\* the sample of a record line: rx is field 0, tx is field 8 (counted from 0)
LineSample(line) ==
    [interface |-> line.iface, rx_bytes |-> CounterOfField(line.data[1]),
     tx_bytes |-> CounterOfField(line.data[9]), kind |-> "Net"]

\* C20: the counter-text collector returns exactly one sample per selected
\* record line with at least 16 fields, in the order of the lines, with rx
\* from field 0 and tx from field 8; a shorter line is passed over and the
\* lines after it are still read; the first two lines give no sample.
C20_ShortLineIsSkipped ==
    (collect # None /\ collect.os = "linux" /\ collect.src.ok) =>
        LET Y == YieldingLines(collect)
        IN  /\ Len(collect.stats) = Cardinality(Y)
            /\ \A k \in Y :
                    collect.stats[Cardinality({j \in Y : j <= k})]
                        = LineSample(collect.src.content[k])

\* a selected line one field short, then a selected well-formed line that
\* gives the only sample
C20_Witness ==
    /\ collect # None
    /\ collect.os = "linux"
    /\ collect.src.ok
    /\ Len(collect.src.content) = 4
    /\ collect.src.content[3].iface \in collect.selected
    /\ collect.src.content[3].colon
    /\ Len(collect.src.content[3].data) = 15
    /\ collect.src.content[4].iface \in collect.selected
    /\ Len(collect.src.content[4].data) = 16
    /\ collect.stats = <<LineSample(collect.src.content[4])>>
    /\ collect.stats[1].rx_bytes = MaxRx
    /\ collect.stats[1].tx_bytes = MaxTx

\* the entries of the address list named n that carry counter data
DataEntries(c, n) ==
    {k \in 1..Len(c.src.list) :
        c.src.list[k].ifa_name = n /\ c.src.list[k].ifa_data # None}

RECURSIVE SumOver(_, _, _)
\* the sum of one counter over a set of positions of the address list
SumOver(c, K, field) ==
    IF K = {}
    THEN 0
    ELSE LET k == CHOOSE x \in K : TRUE
         IN  c.src.list[k].ifa_data[field] + SumOver(c, K \ {k}, field)

C22_HostListsAreReleased ==
    host_lists = 0

(***************************************************************************)
(* Properties of the SNMP WAN collector                                    *)
(***************************************************************************)
\* the GET failed, or its value is neither a 32-bit nor a 64-bit counter
NoCounter(get) ==
    \/ get.tag = "Err"
    \/ get.varbind = None
    \/ get.varbind.type \notin {"Counter32", "Counter64"}

\* C5: fetch_wan never signals an error: a GET that fails or returns a value
\* that is not a 32-bit or 64-bit counter resolves to 0 for that counter, and
\* the call still returns a sample of kind Wan with the given display name.
C5_FetchWanNeverFails ==
    (wan # None /\ wan.resp.session = "Ok") =>
        /\ wan.outcome.tag = "Returned"
        /\ wan.outcome.value.kind = "Wan"
        /\ wan.outcome.value.interface = wan.iface_name
        /\ NoCounter(wan.resp.rx) => wan.outcome.value.rx_bytes = 0
        /\ NoCounter(wan.resp.tx) => wan.outcome.value.tx_bytes = 0

(***************************************************************************)
(* Properties of the polling task                                          *)
(***************************************************************************)
\* the polling task is inside fetch_net_stats or fetch_wan_stats
InBlockingCall ==
    pollPc \in {"fetch_net_stats", "fetch_wan_stats"}

\* C6: with WAN polling enabled, a tick in which every GET fails still
\* publishes the local deltas and a WAN entry with zero rates and goes on to
\* the next tick: no tick ends the loop.
C6_OutageKeepsLoopRunning ==
    /\ pollPc # "panicked"
    /\ (wan # None /\ wan.resp.rx = GetErr /\ wan.resp.tx = GetErr) =>
            /\ pollPc = "update_global"
            /\ Len(metrics) = Len(deltas) + 1
            /\ metrics[Len(metrics)].is_wan
            /\ metrics[Len(metrics)].rx_speed = human_bytes_per_sec(0)
            /\ metrics[Len(metrics)].tx_speed = human_bytes_per_sec(0)

C8_CollectIsBestEffort ==
    (pollPc # "not_spawned" /\ collect # None /\ ~collect.src.ok) =>
        /\ collect.stats = << >>
        /\ deltas = << >>
        /\ metrics = << >>
        /\ pollPc = IF wan_interface # None THEN "fetch_wan_stats" ELSE "update_global"

\* the read of /proc/net/dev failed and the task is on its way to publish
C8_Witness ==
    /\ collect # None
    /\ collect.os = "linux"
    /\ ~collect.src.ok
    /\ collect.stats = << >>
    /\ pollPc = "update_global"

\* WAN polling was committed to at startup
WanEnabled ==
    snmp_available /\ wan_interface # None

\* C13: is_snmp_available is called once, by main, before any WAN fetch; its
\* result and the resolved index stay as they are for the run; a tick calls
\* fetch_wan_stats once when SNMP was available and an index was resolved and
\* never otherwise.
C13_ProbeOnceWanOncePerTick ==
    /\ [](/\ probes <= 1
          /\ pollPc # "not_spawned" => probes = 1
          /\ wan_calls <= 1
          /\ wan_calls > 0 => (probes = 1 /\ WanEnabled)
          /\ pollPc \in {"update_global", "timer"} =>
                wan_calls = IF WanEnabled THEN 1 ELSE 0)
    /\ [][pollPc # "not_spawned" =>
            /\ snmp_available' = snmp_available
            /\ wan_interface' = wan_interface
            /\ probes' = probes]_vars

\* a tick that has called the WAN collector once is about to publish
C13_Witness ==
    /\ pollPc = "update_global"
    /\ WanEnabled
    /\ probes = 1
    /\ wan_calls = 1
    /\ wan # None

\* the delta a tracker holding the map prev gives the sample s
DeltaAgainst(prev, s) ==
    [interface |-> s.interface,
     rx_delta  |-> IF s.interface \in DOMAIN prev
                   THEN ClampedDiff(s.rx_bytes, prev[s.interface][1]) ELSE 0,
     tx_delta  |-> IF s.interface \in DOMAIN prev
                   THEN ClampedDiff(s.tx_bytes, prev[s.interface][2]) ELSE 0,
     kind      |-> s.kind]

\* the deltas and the map are those of one update of the map start on batch,
\* every delta taken against start
IsOneUpdate(start, batch, ds, after) ==
    LET one == update(start, batch)
    IN  /\ ds = one.deltas
        /\ after = one.previous
        /\ \A i \in 1..Len(batch) : ds[i] = DeltaAgainst(start, batch[i])

\* C14: the deltas of a tick, local ones first and then the WAN one, are the
\* result of one update on the local samples followed by the WAN sample (if
\* any), each delta taken against the map the previous tick left.
C14_TwoUpdatesAreOne ==
    [][/\ (pollPc = "fetch_wan_stats" /\ pollPc' = "update_global") =>
            IsOneUpdate(tick_previous, collect.stats \o <<wan'.outcome.value>>,
                        deltas' \o wan_deltas', previous')
       /\ (pollPc = "fetch_net_stats" /\ pollPc' = "update_global") =>
            IsOneUpdate(previous, collect'.stats, deltas' \o wan_deltas', previous')]_vars

\* a tick with a non-zero local delta and a non-zero WAN delta
C14_Witness ==
    /\ pollPc = "update_global"
    /\ wan # None
    /\ Len(deltas) = 1
    /\ deltas[1].rx_delta > 0
    /\ Len(wan_deltas) = 1
    /\ wan_deltas[1].tx_delta > 0

\* a WAN sample with the given rx counter
WanSampleOf(rx) ==
    [interface |-> "ppp0 (WAN)", rx_bytes |-> rx, tx_bytes |-> 0, kind |-> "Wan"]

\* C15: with the WAN display name apart from the local names, the WAN deltas
\* are those of a tracker fed the WAN samples only (0 on the first fetch, then
\* max(0, current - previous); 1000 then 1500 give 0 then 500) and the local
\* deltas are those of a tracker fed the local batches only.
C15_WanAndLocalDoNotInterfere ==
    (DOMAIN wan_only.previous \cap DOMAIN local_only.previous = {}) =>
        /\ wan_deltas = wan_only.deltas
        /\ deltas = local_only.deltas
        /\ \A n \in DOMAIN wan_only.previous :
                n \in DOMAIN previous /\ previous[n] = wan_only.previous[n]
        /\ \A n \in DOMAIN local_only.previous :
                n \in DOMAIN previous /\ previous[n] = local_only.previous[n]
        /\ LET first  == update(previous, <<WanSampleOf(1000)>>)
               second == update(first.previous, <<WanSampleOf(1500)>>)
           IN  "ppp0 (WAN)" \notin DOMAIN previous =>
                    /\ first.deltas[1].rx_delta = 0
                    /\ second.deltas[1].rx_delta = 500

\* a WAN counter that grew while a local batch went through the same tracker
C15_Witness ==
    /\ pollPc = "update_global"
    /\ Len(deltas) = 1
    /\ Len(wan_deltas) = 1
    /\ wan_deltas[1].rx_delta > 0
    /\ DOMAIN local_only.previous # {}
    /\ selected_interfaces # default_selected

\* C16: what the polling task hands to the views is the list of this tick's
\* metrics as it is, the empty list included; the task puts no placeholder
\* entry in its place.
C16_PublishesTrueList ==
    pollPc = "timer" => interfaces = metrics

\* the order of the steps of the polling task
TickOrder ==
    {<<"not_spawned", "loop">>, <<"loop", "read_locked">>,
     <<"read_locked", "fetch_net_stats">>, <<"fetch_net_stats", "fetch_wan_stats">>,
     <<"fetch_net_stats", "update_global">>, <<"fetch_wan_stats", "update_global">>,
     <<"update_global", "timer">>, <<"timer", "loop">>}

\* C17: the polling task goes snapshot, local collect, optional WAN fetch,
\* publish, wait, and from the wait back to the snapshot; one tick at a time,
\* none skipped, and the task never ends.
C17_TicksInOrderForever ==
    [][/\ pollPc' # pollPc => <<pollPc, pollPc'>> \in TickOrder
       /\ pollPc' # "panicked"]_vars

\* C18: the collector of a tick is handed the snapshot taken at the start of
\* that tick and the snapshot stays as taken until the wait, whatever the UI
\* toggles meanwhile; the snapshot of the next tick is the set as it then is.
C18_TickUsesItsSnapshot ==
    /\ []((pollPc # "not_spawned" /\ collect # None) =>
            /\ collect.selected = selected
            /\ selected # {} =>
                    \A i \in 1..Len(collect.stats) : collect.stats[i].interface \in selected)
    /\ [][/\ (pollPc = "read_locked" /\ pollPc' = "fetch_net_stats") =>
                selected' = selected_interfaces
          /\ pollPc \in {"fetch_net_stats", "fetch_wan_stats", "update_global"} =>
                selected' = selected]_vars

\* eth0 was collected for a tick whose snapshot has it although the UI has
\* toggled it off since
C18_Witness ==
    /\ collect # None
    /\ pollPc \in {"fetch_wan_stats", "update_global"}
    /\ "eth0" \in selected
    /\ "eth0" \notin selected_interfaces
    /\ Len(collect.stats) = 1
    /\ collect.stats[1].interface = "eth0"

\* C23: a name the tracker holds that one or more ticks left out of their
\* snapshot and that a later tick samples again gets, in that tick, the delta
\* max(0, current - the pair of its last sample before it was left out): the
\* traffic of the whole gap, not the baseline 0 of a first sight.
C23_ReselectedDeltaSpansTheGap ==
    [][(pollPc = "fetch_net_stats" /\ collect' # None) =>
            \A i \in 1..Len(deltas') :
                LET n == deltas'[i].interface
                IN  (/\ n \in observed.unobserved
                     /\ \A j \in 1..(i - 1) : deltas'[j].interface # n) =>
                        /\ deltas'[i].rx_delta
                                = ClampedDiff(collect'.stats[i].rx_bytes,
                                              observed.last_sample[n][1])
                        /\ deltas'[i].tx_delta
                                = ClampedDiff(collect'.stats[i].tx_bytes,
                                              observed.last_sample[n][2])]_vars

\* eth0 was sampled at 0, left out of a snapshot, and is sampled again at
\* MaxRx: the delta of this tick is MaxRx
C23_Witness ==
    /\ collect # None
    /\ pollPc \in {"fetch_wan_stats", "update_global"}
    /\ "eth0" \in observed.reselected
    /\ "eth0" \in selected
    /\ Len(deltas) = 1
    /\ deltas[1].interface = "eth0"
    /\ collect.stats[1].rx_bytes = MaxRx
    /\ deltas[1].rx_delta = MaxRx
    /\ deltas[1].tx_delta = MaxTx

\* every name the shared set may hold
SelectorNames ==
    default_selected \cup UNION {{l[i] : i \in 1..Len(l)} : l \in SelectorListings}

\* the shared set is what the last toggle made of the set before it, and two
\* toggles of one name in a row give back the set before the first; a write
\* guard shuts out the read guards
ToggleInvariant ==
    /\ selected_interfaces \subseteq SelectorNames
    /\ toggled[1] # None =>
            \A m \in SelectorNames :
                (m \in selected_interfaces)
                    <=> ~((m \in toggled[1].before) <=> (m = toggled[1].name))
    /\ (toggled[1] # None /\ toggled[2] # None /\ toggled[1].name = toggled[2].name) =>
            selected_interfaces = toggled[2].before
    /\ (uiPc = "write_locked") <=> (lock.writer = "ui")
    /\ lock.writer = "ui" => lock.readers = {}
    /\ pollPc = "read_locked" => "poll" \in lock.readers
    /\ uiPc = "render_locked" => "ui" \in lock.readers

\* the set changes only in a step taken with the write guard and no read
\* guard, and a snapshot is the whole set as it is while nobody writes
ToggleStep ==
    /\ selected_interfaces' # selected_interfaces =>
            /\ lock.writer = "ui"
            /\ lock.readers = {}
    /\ (pollPc = "read_locked" /\ pollPc' # "read_locked") =>
            /\ lock.writer = "nobody"
            /\ selected' = selected_interfaces

\* C25: a toggle of n under the write lock flips the membership of n in the
\* shared set and of no other name; two toggles of the same name with no
\* write in between restore the set; no read guard is held while the set is
\* written, so every snapshot is a set that completed toggles produced.
C25_ToggleFlipsExactlyOne ==
    []ToggleInvariant /\ [][ToggleStep]_vars

\* eth0 was toggled off and on again, which restored the default selection,
\* and the snapshot taken in between is the default selection without eth0
C25_Witness ==
    /\ toggled[1] # None
    /\ toggled[2] # None
    /\ toggled[1].name = "eth0"
    /\ toggled[2].name = "eth0"
    /\ toggled[2].before = default_selected
    /\ toggled[1].before = default_selected \ {"eth0"}
    /\ selected_interfaces = default_selected
    /\ pollPc = "fetch_net_stats"
    /\ selected = default_selected \ {"eth0"}

(***************************************************************************)
(* Properties of detect_interface_index                                    *)
(***************************************************************************)
\* which description contains which pattern, written out
HasPattern(text, pattern) ==
    <<text, pattern>> \in {<<"ppp0", "ppp">>, <<"ppp1", "ppp">>,
                           <<"ppp1", "ppp1">>, <<"eth0", "eth0">>}

\* the indices of the probed range whose description contains the pattern
MatchingIndices(d) ==
    {i \in DOMAIN d.descr : i >= 1 /\ i <= 50 /\ HasPattern(d.descr[i], d.pattern)}

\* C11: detect_interface_index returns the lowest index of 1..50 whose
\* description contains the pattern, with that description, and nothing when
\* no index of the range matches (also when a match sits above the range).
C11_FirstAscendingMatch ==
    detect # None =>
        LET M == MatchingIndices(detect)
        IN  IF M = {}
            THEN detect.result = None
            ELSE /\ detect.result # None
                 /\ detect.result.if_index \in M
                 /\ \A i \in M : detect.result.if_index <= i
                 /\ detect.result.if_name = detect.descr[detect.result.if_index]

\* descriptions {1: eth0, 2: ppp0, 3: ppp1} and pattern ppp give (2, ppp0)
C11_Witness ==
    /\ detect # None
    /\ detect.descr = <<"eth0", "ppp0", "ppp1">>
    /\ detect.pattern = "ppp"
    /\ detect.result = [tag |-> "Some", if_index |-> 2, if_name |-> "ppp0"]

(***************************************************************************)
(* Properties of the formatter                                             *)
(***************************************************************************)
Abs(x) ==
    IF x >= 0 THEN x ELSE -x

\* the text "W.FF" is v / d to the nearest hundredth: T = 100 * W + FF differs
\* from 100 * v / d by at most one half (for d = 1024^3 the comparison is
\* made in units of 1024)
IsNearestHundredth(T, v, d) ==
    LET k  == v \div d
        lo == v % d
        h  == T - 100 * k
    IN  /\ h >= 0
        /\ h <= 100
        /\ IF d <= 1048576
           THEN 2 * Abs(h * d - 100 * lo) <= d
           ELSE LET d2 == d \div 1024
                    X  == h * d2 - 100 * (lo \div 1024)
                IN  /\ Abs(X) <= d2
                    /\ Abs(1024 * X - 100 * (lo % 1024)) <= d \div 2

\* the text is v over d with two decimals and the given unit
IsTwoDecimals(text, v, d, unit) ==
    /\ text.unit = unit
    /\ text.decimals = 2
    /\ text.frac >= 0
    /\ text.frac <= 99
    /\ IsNearestHundredth(100 * text.whole + text.frac, v, d)

\* the text is the whole number v and the given unit
IsWhole(text, v, unit) ==
    text = [whole |-> v, frac |-> 0, decimals |-> 0, unit |-> unit]

\* the ladder of the thresholds 1024, 1024^2, 1024^3 over the four units
IsLadder(text, v, units) ==
    /\ v < 1024 => IsWhole(text, v, units[1])
    /\ (v >= 1024 /\ v < 1048576) => IsTwoDecimals(text, v, 1024, units[2])
    /\ (v >= 1048576 /\ v < 1073741824) => IsTwoDecimals(text, v, 1048576, units[3])
    /\ v >= 1073741824 => IsTwoDecimals(text, v, 1073741824, units[4])

\* C12: human_bytes_per_sec renders a rate below 1024 as a whole number of
\* B/s and a rate from 1024, 1024^2, 1024^3 on as rate/1024^n with two
\* decimals and KB/s, MB/s, GB/s; human_bits_per_sec renders 8 times its
\* argument by the same ladder with bps, Kbps, Mbps, Gbps; 0 is "0 B/s",
\* 1536 is "1.50 KB/s", 1073741824 is "1.00 GB/s", 125 is "1000 bps".
C12_UnitLadder ==
    format # None =>
        /\ format.fn = "human_bytes_per_sec" =>
                /\ IsLadder(format.text, format.arg, <<"B/s", "KB/s", "MB/s", "GB/s">>)
                /\ format.arg = 0 => IsWhole(format.text, 0, "B/s")
                /\ format.arg = 1536 =>
                        format.text = [whole |-> 1, frac |-> 50, decimals |-> 2, unit |-> "KB/s"]
                /\ format.arg = 1073741824 =>
                        format.text = [whole |-> 1, frac |-> 0, decimals |-> 2, unit |-> "GB/s"]
        /\ format.fn = "human_bits_per_sec" =>
                /\ IsLadder(format.text, 8 * format.arg, <<"bps", "Kbps", "Mbps", "Gbps">>)
                /\ format.arg = 125 => IsWhole(format.text, 1000, "bps")

\* exactly 1024 bytes per second is already "1.00 KB/s"
C12_Witness ==
    /\ format # None
    /\ format.fn = "human_bytes_per_sec"
    /\ format.arg = 1024
    /\ format.text = [whole |-> 1, frac |-> 0, decimals |-> 2, unit |-> "KB/s"]

====
